---- MODULE Spec2Model ----
(***************************************************************************)
(* Model of api_server.py: the three GET handlers (/documents, /status,    *)
(* /report), the credential loader get_drive_service and the report        *)
(* aggregator _generate_markdown_report.                                   *)
(*                                                                         *)
(* Python strings are sequences of one-character strings, so that          *)
(* str.split, int() and the JSON text are computed character by character. *)
(* Python dicts are sequences of <<key, value>> pairs in insertion order.  *)
(* Timestamps (datetime.now()) are not modelled.                           *)
(***************************************************************************)
EXTENDS Integers, Sequences, FiniteSets, TLC

\* Largest number of records one collaborator search returns in the model.
MaxFiles == 2

None == "None"

----------------------------------------------------------------------------
\* JSON values as the collaborator returns them: a string or an object.

Str(cs) == [t |-> "s", s |-> cs, o |-> <<>>]

Obj(ps) == [t |-> "o", s |-> <<>>, o |-> ps]

K_properties == <<"p","r","o","p","e","r","t","i","e","s">>

K_categories == <<"c","a","t","e","g","o","r","i","e","s">>

K_overall_confidence ==
    <<"o","v","e","r","a","l","l","_","c","o","n","f","i","d","e","n","c","e">>

K_id == <<"i","d">>

HIGH == <<"H","I","G","H">>

MEDIUM == <<"M","E","D","I","U","M">>

LOW == <<"L","O","W">>

\* dict: key in d
HasKey(d, k) == \E i \in 1..Len(d) : d[i][1] = k

\* dict.get(k, default)
DictGet(d, k, default) ==
    IF HasKey(d, k)
    THEN d[CHOOSE i \in 1..Len(d) : d[i][1] = k][2]
    ELSE default

\* d[k] = v: an existing key keeps its position, a new key is appended
DictSet(d, k, v) ==
    IF HasKey(d, k)
    THEN [i \in 1..Len(d) |-> IF d[i][1] = k THEN <<k, v>> ELSE d[i]]
    ELSE Append(d, <<k, v>>)

----------------------------------------------------------------------------
\* str.split(','): the pieces between commas, empty pieces kept.

RECURSIVE Split(_)
Split(cs) ==
    IF \E i \in 1..Len(cs) : cs[i] = ","
    THEN LET i == CHOOSE j \in 1..Len(cs) :
                     cs[j] = "," /\ \A k \in 1..(j-1) : cs[k] # ","
         IN  <<SubSeq(cs, 1, i-1)>> \o Split(SubSeq(cs, i+1, Len(cs)))
    ELSE <<cs>>

\* int(x) of a str: surrounding whitespace stripped, an optional sign, then
\* one or more decimal digits; anything else raises ValueError (ok = FALSE).
Digits == <<"0","1","2","3","4","5","6","7","8","9">>

IsDigit(c) == \E d \in 1..10 : Digits[d] = c

DigitVal(c) == (CHOOSE d \in 1..10 : Digits[d] = c) - 1

IsSpace(c) == c \in {" ", "\n", "\t"}

RECURSIVE Strip(_)
Strip(cs) ==
    IF cs # <<>> /\ IsSpace(cs[1]) THEN Strip(Tail(cs))
    ELSE IF cs # <<>> /\ IsSpace(cs[Len(cs)]) THEN Strip(SubSeq(cs, 1, Len(cs)-1))
    ELSE cs

RECURSIVE DigitsValue(_)
DigitsValue(cs) ==
    IF cs = <<>> THEN 0
    ELSE 10 * DigitsValue(SubSeq(cs, 1, Len(cs)-1)) + DigitVal(cs[Len(cs)])

IntOfStr(cs) ==
    LET b    == Strip(cs)
        sgn  == b # <<>> /\ b[1] \in {"+", "-"}
        body == IF sgn THEN Tail(b) ELSE b
        good == body # <<>> /\ \A i \in 1..Len(body) : IsDigit(body[i])
    IN  IF good
        THEN [ok |-> TRUE,
              v  |-> IF sgn /\ b[1] = "-" THEN 0 - DigitsValue(body)
                     ELSE DigitsValue(body)]
        ELSE [ok |-> FALSE, v |-> 0]

----------------------------------------------------------------------------
\* json.dumps(files, indent=2): the JSON text, character by character.

\* Escape with the escapes forgotten
EscapeNone(cs) == cs

\* the escapes of the standard encoder that the model's characters can need
RECURSIVE Escape(_)
Escape(cs) ==
    IF cs = <<>> THEN <<>>
    ELSE (CASE cs[1] = "\"" -> <<"\\", "\"">>
            [] cs[1] = "\\" -> <<"\\", "\\">>
            [] cs[1] = "\n" -> <<"\\", "n">>
            [] cs[1] = "\t" -> <<"\\", "t">>
            [] OTHER        -> <<cs[1]>>) \o Escape(Tail(cs))

EncStr(cs) == <<"\"">> \o Escape(cs) \o <<"\"">>

RECURSIVE Indent(_)
Indent(lvl) == IF lvl = 0 THEN <<>> ELSE <<" ", " ">> \o Indent(lvl - 1)

NewLine(lvl) == <<"\n">> \o Indent(lvl)

RECURSIVE EncValue(_, _)
RECURSIVE EncMembers(_, _, _)
EncObj(ps, lvl) ==
    IF ps = <<>> THEN <<"{", "}">>
    ELSE <<"{">> \o EncMembers(ps, 1, lvl + 1) \o NewLine(lvl) \o <<"}">>

EncMembers(ps, i, lvl) ==
    NewLine(lvl) \o EncStr(ps[i][1]) \o <<":", " ">> \o EncValue(ps[i][2], lvl)
    \o (IF i < Len(ps) THEN <<",">> \o EncMembers(ps, i + 1, lvl) ELSE <<>>)

EncValue(v, lvl) == IF v.t = "s" THEN EncStr(v.s) ELSE EncObj(v.o, lvl)

RECURSIVE EncItems(_, _)
EncItems(vs, i) ==
    NewLine(1) \o EncValue(vs[i], 1)
    \o (IF i < Len(vs) THEN <<",">> \o EncItems(vs, i + 1) ELSE <<>>)

JsonDumps(vs) ==
    IF vs = <<>> THEN <<"[", "]">>
    ELSE <<"[">> \o EncItems(vs, 1) \o NewLine(0) \o <<"]">>

----------------------------------------------------------------------------
\* json.loads(text): the client's decoding of report_content.  Every parser
\* returns [ok, v, i]: whether it succeeded, the value, the next position.

At(s, i) == IF i \in 1..Len(s) THEN s[i] ELSE "EOF"

ParseFail == [ok |-> FALSE, v |-> Str(<<>>), i |-> 0]

RECURSIVE SkipWs(_, _)
SkipWs(s, i) == IF IsSpace(At(s, i)) THEN SkipWs(s, i + 1) ELSE i

\* i is the position after the opening quote
RECURSIVE ScanString(_, _, _)
ScanString(s, i, acc) ==
    LET c == At(s, i)
        e == At(s, i + 1)
    IN  CASE c = "EOF" -> ParseFail
          [] c = "\"" -> [ok |-> TRUE, v |-> Str(acc), i |-> i + 1]
          [] c = "\\" ->
                (CASE e \in {"\"", "\\", "/"} -> ScanString(s, i + 2, Append(acc, e))
                   [] e = "n" -> ScanString(s, i + 2, Append(acc, "\n"))
                   [] e = "t" -> ScanString(s, i + 2, Append(acc, "\t"))
                   [] OTHER   -> ParseFail)
          [] OTHER -> ScanString(s, i + 1, Append(acc, c))

RECURSIVE ParseValue(_, _)
RECURSIVE ParseMembers(_, _, _)
ParseObject(s, i) ==
    LET j == SkipWs(s, i + 1)
    IN  IF At(s, j) = "}" THEN [ok |-> TRUE, v |-> Obj(<<>>), i |-> j + 1]
        ELSE ParseMembers(s, j, <<>>)

ParseMembers(s, i, acc) ==
    IF At(s, i) # "\"" THEN ParseFail
    ELSE LET k == ScanString(s, i + 1, <<>>)
             c == SkipWs(s, k.i)
         IN  IF ~k.ok \/ At(s, c) # ":" THEN ParseFail
             ELSE LET v == ParseValue(s, SkipWs(s, c + 1))
                  IN  IF ~v.ok THEN ParseFail
                      ELSE LET j    == SkipWs(s, v.i)
                               acc2 == DictSet(acc, k.v.s, v.v)
                           IN  CASE At(s, j) = "," ->
                                        ParseMembers(s, SkipWs(s, j + 1), acc2)
                                 [] At(s, j) = "}" ->
                                        [ok |-> TRUE, v |-> Obj(acc2), i |-> j + 1]
                                 [] OTHER -> ParseFail

ParseValue(s, i) ==
    CASE At(s, i) = "\"" -> ScanString(s, i + 1, <<>>)
      [] At(s, i) = "{"  -> ParseObject(s, i)
      [] OTHER           -> ParseFail

\* the elements of the top-level array; returns [ok, vs, i]
RECURSIVE ParseItems(_, _, _)
ParseItems(s, i, acc) ==
    LET v == ParseValue(s, i)
    IN  IF ~v.ok THEN [ok |-> FALSE, vs |-> <<>>, i |-> 0]
        ELSE LET j == SkipWs(s, v.i)
             IN  CASE At(s, j) = "," ->
                          ParseItems(s, SkipWs(s, j + 1), Append(acc, v.v))
                   [] At(s, j) = "]" ->
                          [ok |-> TRUE, vs |-> Append(acc, v.v), i |-> j + 1]
                   [] OTHER -> [ok |-> FALSE, vs |-> <<>>, i |-> 0]

\* [ok, vs]: ok = FALSE stands for JSONDecodeError
JsonLoads(s) ==
    LET i == SkipWs(s, 1)
        j == SkipWs(s, i + 1)
        r == IF At(s, i) # "[" THEN [ok |-> FALSE, vs |-> <<>>, i |-> 0]
             ELSE IF At(s, j) = "]" THEN [ok |-> TRUE, vs |-> <<>>, i |-> j + 1]
             ELSE ParseItems(s, j, <<>>)
    IN  IF r.ok /\ SkipWs(s, r.i) = Len(s) + 1
        THEN [ok |-> TRUE, vs |-> r.vs]
        ELSE [ok |-> FALSE, vs |-> <<>>]

----------------------------------------------------------------------------
\* The inputs of the model.

\* what the collaborator's search can raise
Errors == {"API Error", "Quota exceeded"}

\* values of a record's 'categories' property (besides its absence)
CategoryStrings ==
    { <<>>, <<"a", ",", ",", "a">>, <<"a", ",", "\"", "\\">> }

\* values of a record's 'overall_confidence' property (besides its absence)
ConfidenceStrings ==
    { <<"9","0">>, <<"7","0">>, <<"6","9">>, <<"9",".","5">> }

CategoryParts ==
    {<<>>} \cup {<< <<K_categories, Str(c)>> >> : c \in CategoryStrings}

ConfidenceParts ==
    {<<>>} \cup {<< <<K_overall_confidence, Str(k)>> >> : k \in ConfidenceStrings}

PropertyBags == {c \o k : c \in CategoryParts, k \in ConfidenceParts}

\* records of a files(id, name, properties) search: with or without a bag
ReportRecords ==
    {Obj(<<>>)} \cup {Obj(<< <<K_properties, Obj(b)>> >>) : b \in PropertyBags}

\* records of a files(id) search
IdRecords == {Obj(<< <<K_id, Str(<<d>>)>> >>) : d \in {"1", "2"}}

SeqsUpTo(S, n) == UNION {[1..k -> S] : k \in 0..n}

\* the responses of files().list(...).execute() over a set of records; the
\* 'files' key may be absent
Responses(S, tokens) ==
    {[hasFiles |-> FALSE, files |-> <<>>, nextPageToken |-> t] : t \in tokens}
    \cup {[hasFiles |-> TRUE, files |-> fs, nextPageToken |-> t] :
            fs \in SeqsUpTo(S, MaxFiles), t \in tokens}

\* response.get('files', [])
FilesOf(r) == IF r.hasFiles THEN r.files ELSE <<>>

CredStates == {"ok", "missing", "unreadable"}

\* values of SUPPORTED_MIME_TYPES after split(','); unset gives ['']
MimeConfigs == { <<"">>, <<"text/plain", "application/pdf">> }

----------------------------------------------------------------------------
VARIABLES
    cred,                  \* state of the file at GOOGLE_TOKEN_PATH
    supported_mime_types,  \* config.supported_mime_types
    pc,                    \* position of the request being served
    endpoint,              \* "documents", "status" or "report"
    args,                  \* the request's query parameters
    calls,                 \* the search calls made for this request, in order
    total_response,        \* get_status: the first search's response
    files,                 \* get_report: the records being reported
    idx,                   \* _generate_markdown_report: position of the loop
    report_parts,          \* _generate_markdown_report: the lines so far
    categories,            \* _generate_markdown_report: category tally
    confidence_levels,     \* _generate_markdown_report: confidence tally
    response               \* the HTTP response

vars == <<cred, supported_mime_types, pc, endpoint, args, calls, total_response,
          files, idx, report_parts, categories, confidence_levels, response>>

NoArgs ==
    [folder_id |-> None, page_token |-> None, page_size |-> 0,
     include_processed |-> FALSE, format |-> None,
     start_date |-> None, end_date |-> None]

NoResponse ==
    [kind |-> "none", status_code |-> 0, detail |-> "",
     documents |-> <<>>, next_page_token |-> None, total_count |-> 0,
     total_documents |-> 0, classified_count |-> 0, pending_count |-> 0,
     report_content |-> <<>>, format |-> None]

NoSearch == [hasFiles |-> FALSE, files |-> <<>>, nextPageToken |-> None]

max_results_per_page == 100

HTTPException(status_code, detail) ==
    [NoResponse EXCEPT !.kind = "HTTPException", !.status_code = status_code,
                       !.detail = detail]

\* an exception no handler catches: the framework answers 500
ServerError ==
    [NoResponse EXCEPT !.kind = "ServerError", !.status_code = 500,
                       !.detail = "Internal Server Error"]

DocumentList(documents, next_page_token, total_count) ==
    [NoResponse EXCEPT !.kind = "DocumentList", !.status_code = 200,
                       !.documents = documents,
                       !.next_page_token = next_page_token,
                       !.total_count = total_count]

StatusResponse(total_documents, classified_count, pending_count) ==
    [NoResponse EXCEPT !.kind = "StatusResponse", !.status_code = 200,
                       !.total_documents = total_documents,
                       !.classified_count = classified_count,
                       !.pending_count = pending_count]

ReportResponse(report_content, format) ==
    [NoResponse EXCEPT !.kind = "ReportResponse", !.status_code = 200,
                       !.report_content = report_content, !.format = format]

Init ==
    /\ cred \in CredStates
    /\ supported_mime_types \in MimeConfigs
    /\ pc = "idle"
    /\ endpoint = None
    /\ args = NoArgs
    /\ calls = <<>>
    /\ total_response = NoSearch
    /\ files = <<>>
    /\ idx = 0
    /\ report_parts = <<>>
    /\ categories = <<>>
    /\ confidence_levels = <<>>
    /\ response = NoResponse

----------------------------------------------------------------------------
\* Query strings, as sequences of their pieces.

RECURSIVE Join(_, _)
Join(parts, sep) ==
    IF parts = <<>> THEN <<>>
    ELSE IF Len(parts) = 1 THEN parts[1]
    ELSE parts[1] \o <<sep>> \o Join(Tail(parts), sep)

MimeClauses(mimes) == [i \in 1..Len(mimes) |-> <<"mimeType = '", mimes[i], "'">>]

ClassifiedClause == <<"properties has { key='classified' and value='true' }">>

\* list_documents: the query of lines 64-79
DocumentsQuery(folder_id, include_processed, mimes) ==
    LET p1 == IF folder_id # None
              THEN << <<"'", folder_id, "' in parents">> >> ELSE <<>>
        p2 == IF mimes # <<>>
              THEN << <<"(">> \o Join(MimeClauses(mimes), " or ") \o <<")">> >>
              ELSE <<>>
        p3 == IF ~include_processed THEN << <<"not ">> \o ClassifiedClause >>
              ELSE <<>>
        query_parts == p1 \o p2 \o p3
    IN  IF query_parts # <<>> THEN Join(query_parts, " and ") ELSE <<None>>

\* get_status: the query of the first search
StatusTotalQuery(mimes) == Join(MimeClauses(mimes), " or ")

\* get_report: the query of lines 141-148
ReportQuery(start_date, end_date) ==
    LET p2 == IF start_date # None
              THEN << <<"modifiedTime >= '", start_date, "'">> >> ELSE <<>>
        p3 == IF end_date # None
              THEN << <<"modifiedTime <= '", end_date, "'">> >> ELSE <<>>
    IN  Join(<<ClassifiedClause>> \o p2 \o p3, " and ")

Min(a, b) == IF a <= b THEN a ELSE b

\* one entry of the log of search calls; pageSize 0 is "not passed", outcome
\* is "ok" or the message of the exception raised, result the response
Call(q, fields, pageToken, pageSize, outcome, result) ==
    [q |-> q, fields |-> fields, pageToken |-> pageToken, pageSize |-> pageSize,
     outcome |-> outcome, result |-> result]

----------------------------------------------------------------------------
\* _generate_markdown_report, one record at a time.

Line(text, key, n) == [text |-> text, key |-> key, n |-> n]

\* lines 176-181: the head of the report (the timestamp is left out)
ReportHead(fs) ==
    << Line("# Document Classification Report", <<>>, -1),
       Line("\nGenerated: ", <<>>, -1),
       Line("\nTotal Documents: ", <<>>, Len(fs)),
       Line("\n## Summary", <<>>, -1) >>

\* line 185
InitialLevels == << <<HIGH, 0>>, <<MEDIUM, 0>>, <<LOW, 0>> >>

\* line 188: file.get('properties', {})
PropsOf(file) == DictGet(file.o, K_properties, Obj(<<>>)).o

\* lines 189-191: the loop over the pieces of 'categories'
RECURSIVE CountCategories(_, _)
CountCategories(cats, toks) ==
    IF toks = <<>> THEN cats
    ELSE CountCategories(
            IF toks[1] # <<>>
            THEN DictSet(cats, toks[1], DictGet(cats, toks[1], 0) + 1)
            ELSE cats,
            Tail(toks))

CategoriesAfter(cats, file) ==
    CountCategories(cats, Split(DictGet(PropsOf(file), K_categories, Str(<<>>)).s))

\* line 193: int(props.get('overall_confidence', 0)); ok = FALSE is ValueError
ConfidenceOf(file) ==
    IF HasKey(PropsOf(file), K_overall_confidence)
    THEN IntOfStr(DictGet(PropsOf(file), K_overall_confidence, Str(<<>>)).s)
    ELSE [ok |-> TRUE, v |-> 0]

\* LevelOf with the HIGH threshold exclusive
LevelOfStrict(confidence) ==
    IF confidence > 90 THEN HIGH
    ELSE IF confidence >= 70 THEN MEDIUM
    ELSE LOW

\* lines 194-199
LevelOf(confidence) ==
    IF confidence >= 90 THEN HIGH
    ELSE IF confidence >= 70 THEN MEDIUM
    ELSE LOW

LevelsAfter(levels, confidence) ==
    DictSet(levels, LevelOf(confidence), DictGet(levels, LevelOf(confidence), 0) + 1)

\* lines 202-207
ReportTail(cats, levels) ==
    << Line("\n### Categories", <<>>, -1) >>
    \o [i \in 1..Len(cats) |-> Line("- ", cats[i][1], cats[i][2])]
    \o << Line("\n### Confidence Levels", <<>>, -1) >>
    \o [i \in 1..Len(levels) |-> Line("- ", levels[i][1], levels[i][2])]

----------------------------------------------------------------------------
\* The handlers.

\* RaiseHTTP500 with the exception's message dropped
RaiseHTTP500Generic(e) ==
    /\ response' = HTTPException(500, "Internal Server Error")
    /\ pc' = "done"

\* the except clauses of the three handlers: HTTPException(500, str(e))
RaiseHTTP500(e) ==
    /\ response' = HTTPException(500, e)
    /\ pc' = "done"

AggregatorVars == <<files, idx, report_parts, categories, confidence_levels>>

\* GET /documents arrives
RequestDocuments ==
    /\ pc = "idle"
    /\ \E folder_id \in {None, "f1"}, page_token \in {None, "t2"},
          page_size \in {50, 1000}, include_processed \in BOOLEAN :
            args' = [NoArgs EXCEPT !.folder_id = folder_id,
                                   !.page_token = page_token,
                                   !.page_size = page_size,
                                   !.include_processed = include_processed]
    /\ endpoint' = "documents"
    /\ pc' = "service"
    /\ UNCHANGED <<cred, supported_mime_types, calls, total_response,
                   AggregatorVars, response>>

\* GET /status arrives
RequestStatus ==
    /\ pc = "idle"
    /\ args' = NoArgs
    /\ endpoint' = "status"
    /\ pc' = "service"
    /\ UNCHANGED <<cred, supported_mime_types, calls, total_response,
                   AggregatorVars, response>>

\* GET /report arrives
RequestReport ==
    /\ pc = "idle"
    /\ \E format \in {"markdown", "json"}, start_date \in {None, "2025-03-01"},
          end_date \in {None, "2025-03-31"} :
            args' = [NoArgs EXCEPT !.format = format, !.start_date = start_date,
                                   !.end_date = end_date]
    /\ endpoint' = "report"
    /\ pc' = "service"
    /\ UNCHANGED <<cred, supported_mime_types, calls, total_response,
                   AggregatorVars, response>>

\* GetDriveServiceOutcome with the credentials loaded lazily, after the search
GetDriveServiceNoCheck(c) == [next |-> "search", resp |-> NoResponse]

\* get_drive_service, called first by every handler and outside its try
GetDriveServiceOutcome(c) ==
    CASE c = "missing"    -> [next |-> "done",
                              resp |-> HTTPException(500, "Google OAuth token not found")]
      [] c = "unreadable" -> [next |-> "done", resp |-> ServerError]
      [] OTHER            -> [next |-> "search", resp |-> NoResponse]

GetDriveService ==
    /\ pc = "service"
    /\ pc' = GetDriveServiceOutcome(cred).next
    /\ response' = GetDriveServiceOutcome(cred).resp
    /\ UNCHANGED <<cred, supported_mime_types, endpoint, args, calls,
                   total_response, AggregatorVars>>

\* list_documents, lines 64-97
ListDocuments ==
    /\ pc = "search" /\ endpoint = "documents"
    /\ LET q  == DocumentsQuery(args.folder_id, args.include_processed,
                                supported_mime_types)
           fl == "nextPageToken, files(id, name, mimeType, createdTime, modifiedTime, owners, size)"
           ps == Min(args.page_size, max_results_per_page)
       IN  \/ \E e \in Errors :
                /\ calls' = Append(calls, Call(q, fl, args.page_token, ps, e, NoSearch))
                /\ RaiseHTTP500(e)
           \/ \E r \in Responses(IdRecords, {None, "t2"}) :
                /\ calls' = Append(calls, Call(q, fl, args.page_token, ps, "ok", r))
                /\ response' = DocumentList(FilesOf(r), r.nextPageToken, Len(FilesOf(r)))
                /\ pc' = "done"
    /\ UNCHANGED <<cred, supported_mime_types, endpoint, args, total_response,
                   AggregatorVars>>

\* get_status, lines 106-109: the first search
StatusSearchTotal ==
    /\ pc = "search" /\ endpoint = "status"
    /\ LET q == StatusTotalQuery(supported_mime_types)
       IN  \/ \E e \in Errors :
                /\ calls' = Append(calls, Call(q, "files(id)", None, 0, e, NoSearch))
                /\ RaiseHTTP500(e)
                /\ UNCHANGED total_response
           \/ \E r \in Responses(IdRecords, {None}) :
                /\ calls' = Append(calls, Call(q, "files(id)", None, 0, "ok", r))
                /\ total_response' = r
                /\ pc' = "search2"
                /\ UNCHANGED response
    /\ UNCHANGED <<cred, supported_mime_types, endpoint, args, AggregatorVars>>

\* StatusOf with the subtraction turned round
StatusOfSwapped(total, classified) ==
    LET total_count      == Len(FilesOf(total))
        classified_count == Len(FilesOf(classified))
    IN  StatusResponse(total_count, classified_count, classified_count - total_count)

\* get_status, lines 117-125
StatusOf(total, classified) ==
    LET total_count      == Len(FilesOf(total))
        classified_count == Len(FilesOf(classified))
    IN  StatusResponse(total_count, classified_count, total_count - classified_count)

\* get_status, lines 112-125: the second search and the answer
StatusSearchClassified ==
    /\ pc = "search2" /\ endpoint = "status"
    /\ \/ \E e \in Errors :
            /\ calls' = Append(calls, Call(ClassifiedClause, "files(id)", None, 0, e, NoSearch))
            /\ RaiseHTTP500(e)
       \/ \E r \in Responses(IdRecords, {None}) :
            /\ calls' = Append(calls, Call(ClassifiedClause, "files(id)", None, 0, "ok", r))
            /\ response' = StatusOf(total_response, r)
            /\ pc' = "done"
    /\ UNCHANGED <<cred, supported_mime_types, endpoint, args, total_response,
                   AggregatorVars>>

\* get_report, lines 160-169 for format = "json"
JsonReport(fs) == ReportResponse(JsonDumps(fs), "json")

\* get_report, lines 141-169: the search; the json report is answered at once,
\* the markdown report enters _generate_markdown_report (lines 176-185)
ReportSearch ==
    /\ pc = "search" /\ endpoint = "report"
    /\ LET q  == ReportQuery(args.start_date, args.end_date)
           fl == "files(id, name, properties)"
       IN  \/ \E e \in Errors :
                /\ calls' = Append(calls, Call(q, fl, None, 1000, e, NoSearch))
                /\ RaiseHTTP500(e)
                /\ UNCHANGED AggregatorVars
           \/ \E r \in Responses(ReportRecords, {None}) :
                /\ calls' = Append(calls, Call(q, fl, None, 1000, "ok", r))
                /\ files' = FilesOf(r)
                /\ IF args.format = "markdown"
                   THEN /\ report_parts' = ReportHead(FilesOf(r))
                        /\ categories' = <<>>
                        /\ confidence_levels' = InitialLevels
                        /\ idx' = 1
                        /\ pc' = "aggregate"
                        /\ UNCHANGED response
                   ELSE /\ response' = JsonReport(FilesOf(r))
                        /\ pc' = "done"
                        /\ UNCHANGED <<idx, report_parts, categories, confidence_levels>>
    /\ UNCHANGED <<cred, supported_mime_types, endpoint, args, total_response>>

\* _generate_markdown_report, lines 187-199: one turn of the loop; a
\* ValueError of int() leaves the function and is caught at line 171
AggregateFile ==
    /\ pc = "aggregate" /\ idx <= Len(files)
    /\ categories' = CategoriesAfter(categories, files[idx])
    /\ IF ConfidenceOf(files[idx]).ok
       THEN /\ confidence_levels' = LevelsAfter(confidence_levels, ConfidenceOf(files[idx]).v)
            /\ idx' = idx + 1
            /\ UNCHANGED <<pc, response>>
       ELSE /\ RaiseHTTP500("invalid literal for int() with base 10")
            /\ UNCHANGED <<confidence_levels, idx>>
    /\ UNCHANGED <<cred, supported_mime_types, endpoint, args, calls,
                   total_response, files, report_parts>>

\* _generate_markdown_report, lines 202-209, and get_report, lines 165-169
RenderReport ==
    /\ pc = "aggregate" /\ idx > Len(files)
    /\ report_parts' = report_parts \o ReportTail(categories, confidence_levels)
    /\ response' = ReportResponse(report_parts', "markdown")
    /\ pc' = "done"
    /\ UNCHANGED <<cred, supported_mime_types, endpoint, args, calls,
                   total_response, files, idx, categories, confidence_levels>>

Next ==
    \/ RequestDocuments
    \/ RequestStatus
    \/ RequestReport
    \/ GetDriveService
    \/ ListDocuments
    \/ StatusSearchTotal
    \/ StatusSearchClassified
    \/ ReportSearch
    \/ AggregateFile
    \/ RenderReport

Spec == Init /\ [][Next]_vars

----------------------------------------------------------------------------
\* What the properties below speak about.

\* a markdown report was asked for, the search succeeded, the request is over
MarkdownServed ==
    /\ pc = "done" /\ endpoint = "report" /\ args.format = "markdown"
    /\ Len(calls) = 1 /\ calls[1].outcome = "ok"

\* a json report was asked for, the search succeeded, the request is over
JsonServed ==
    /\ pc = "done" /\ endpoint = "report" /\ args.format = "json"
    /\ Len(calls) = 1 /\ calls[1].outcome = "ok"

\* the records the collaborator returned to the report request
Returned == FilesOf(calls[1].result)

HasConfidence(file) == HasKey(PropsOf(file), K_overall_confidence)

ConfidenceString(file) == DictGet(PropsOf(file), K_overall_confidence, Str(<<>>)).s

\* the confidence the specification gives a record: its integer, and 0 when
\* the field is missing or is no integer
SpecConfidence(file) ==
    IF HasConfidence(file) /\ IntOfStr(ConfidenceString(file)).ok
    THEN IntOfStr(ConfidenceString(file)).v
    ELSE 0

\* the bucket the specification gives a record
SpecLevel(file) ==
    CASE HasConfidence(file) /\ ConfidenceString(file) = <<"9","0">> -> HIGH
      [] HasConfidence(file) /\ ConfidenceString(file) = <<"7","0">> -> MEDIUM
      [] HasConfidence(file) /\ ConfidenceString(file) = <<"6","9">> -> LOW
      [] ~HasConfidence(file) -> LOW
      [] OTHER -> IF SpecConfidence(file) >= 90 THEN HIGH
                  ELSE IF SpecConfidence(file) >= 70 THEN MEDIUM
                  ELSE LOW

\* the number of records among fs[1..n] the specification puts in bucket lvl
SpecCount(fs, n, lvl) == Cardinality({i \in 1..n : SpecLevel(fs[i]) = lvl})

\* the non-empty pieces of a record's 'categories', its absence read as ''
Tokens(file) ==
    SelectSeq(Split(DictGet(PropsOf(file), K_categories, Str(<<>>)).s),
              LAMBDA t : t # <<>>)

RECURSIVE AllTokens(_)
AllTokens(fs) == IF fs = <<>> THEN <<>> ELSE Tokens(fs[1]) \o AllTokens(Tail(fs))

Occurrences(toks, label) == Cardinality({i \in 1..Len(toks) : toks[i] = label})

RECURSIVE SumCounts(_)
SumCounts(d) == IF d = <<>> THEN 0 ELSE d[1][2] + SumCounts(Tail(d))

\* the lines of a rendered report between one heading and the next
HeadingAt(rc, text) == CHOOSE i \in 1..Len(rc) : rc[i].text = text

Section(rc, from, to) ==
    IF to = "" THEN SubSeq(rc, HeadingAt(rc, from) + 1, Len(rc))
    ELSE SubSeq(rc, HeadingAt(rc, from) + 1, HeadingAt(rc, to) - 1)

HasHeadings(rc) ==
    /\ Cardinality({i \in 1..Len(rc) : rc[i].text = "\n### Categories"}) = 1
    /\ Cardinality({i \in 1..Len(rc) : rc[i].text = "\n### Confidence Levels"}) = 1
    /\ HeadingAt(rc, "\n### Categories") < HeadingAt(rc, "\n### Confidence Levels")

\* the tally a section's lines state, as a dict
TallyOf(lines) == [i \in 1..Len(lines) |-> <<lines[i].key, lines[i].n>>]

IsReport == response.kind = "ReportResponse" /\ response.status_code = 200

ReportedTotal(rc) ==
    rc[CHOOSE i \in 1..Len(rc) : rc[i].text = "\nTotal Documents: "].n

ReportedCategories(rc) ==
    TallyOf(Section(rc, "\n### Categories", "\n### Confidence Levels"))

ReportedLevels(rc) == TallyOf(Section(rc, "\n### Confidence Levels", ""))

----------------------------------------------------------------------------
\* C1: the report aggregator never fails on malformed input: whatever records
\* the search returned (no properties bag, no 'categories', no
\* 'overall_confidence', an 'overall_confidence' that is no integer), a
\* markdown report request whose search succeeded is answered with a report,
\* in which such a record is counted with confidence 0, in bucket LOW.
C1_NeverFails ==
    MarkdownServed =>
        /\ IsReport
        /\ HasHeadings(response.report_content)
        /\ \A lvl \in {HIGH, MEDIUM, LOW} :
               DictGet(ReportedLevels(response.report_content), lvl, -1)
                   = SpecCount(Returned, Len(Returned), lvl)

\* C2: the confidence tally partitions the records: for every record
\* sequence the report's HIGH + MEDIUM + LOW equals its total document count,
\* which equals the number of records returned; while the aggregator runs,
\* the three buckets sum to the number of records done.
C2_TallyPartition ==
    /\ (pc = "aggregate" => SumCounts(confidence_levels) = idx - 1)
    /\ (MarkdownServed =>
          /\ IsReport
          /\ HasHeadings(response.report_content)
          /\ SumCounts(ReportedLevels(response.report_content))
                 = ReportedTotal(response.report_content)
          /\ ReportedTotal(response.report_content) = Len(Returned))

\* C3: a record's bucket follows the thresholds: while and after the
\* aggregator runs, each bucket holds the number of records done whose
\* integer confidence is >= 90 (HIGH), from 70 to 89 (MEDIUM), lower or
\* absent (LOW); "90" is HIGH, "70" is MEDIUM, "69" is LOW.
C3_Thresholds ==
    (endpoint = "report" /\ args.format = "markdown" /\ pc \in {"aggregate", "done"}
        /\ Len(calls) = 1 /\ calls[1].outcome = "ok") =>
        /\ idx - 1 <= Len(files)
        /\ \A i \in 1..(idx - 1) : ConfidenceOf(files[i]).ok
        /\ \A lvl \in {HIGH, MEDIUM, LOW} :
               DictGet(confidence_levels, lvl, -1) = SpecCount(files, idx - 1, lvl)

\* C3's case: a report over a record of confidence "70" and a record without
\* 'overall_confidence' has been answered
C3_Witness ==
    /\ MarkdownServed /\ IsReport /\ Len(files) = 2
    /\ HasConfidence(files[1]) /\ ConfidenceString(files[1]) = <<"7","0">>
    /\ ~HasConfidence(files[2])
    /\ confidence_levels = << <<HIGH, 0>>, <<MEDIUM, 1>>, <<LOW, 1>> >>

\* C4: for every record sequence the report's category tally gives each
\* label the number of times it occurs as a non-empty piece of the records'
\* 'categories' split on commas, repeats counted, nothing else listed, and
\* the counts sum to the number of non-empty pieces.
C4_CategoryTally ==
    MarkdownServed =>
        /\ IsReport
        /\ HasHeadings(response.report_content)
        /\ LET tally == ReportedCategories(response.report_content)
               toks  == AllTokens(Returned)
           IN  /\ \A i \in 1..Len(toks) :
                      DictGet(tally, toks[i], 0) = Occurrences(toks, toks[i])
               /\ \A i \in 1..Len(tally) :
                      /\ tally[i][2] = Occurrences(toks, tally[i][1])
                      /\ tally[i][2] > 0
                      /\ \A j \in 1..Len(tally) : tally[j][1] = tally[i][1] => j = i
               /\ SumCounts(tally) = Len(toks)

\* C5: the json report reproduces the record list the collaborator returned:
\* decoding report_content gives the same records in the same order with the
\* same fields and nothing added, and the format tag is 'json'.
C5_JsonVerbatim ==
    JsonServed =>
        /\ IsReport
        /\ response.format = "json"
        /\ LET decoded == JsonLoads(response.report_content)
           IN  decoded.ok /\ decoded.vs = Returned

\* C5's case: a json report over two different records, one of them with a
\* label that needs escaping, has been answered
C5_Witness ==
    /\ JsonServed /\ IsReport /\ Len(Returned) = 2
    /\ Returned[1] # Returned[2]
    /\ \E i \in 1..2 : \E t \in 1..Len(Tokens(Returned[i])) :
           Tokens(Returned[i])[t] = <<"\"", "\\">>

C7_NoSearchWithoutCredentials ==
    cred # "ok" =>
        /\ calls = <<>>
        /\ pc \in {"idle", "service", "done"}
        /\ (pc = "done" =>
              /\ response.status_code = 500
              /\ response.kind \in {"HTTPException", "ServerError"}
              /\ (cred = "missing" =>
                    response.detail = "Google OAuth token not found"))

\* C7's case: a report request answered while the credential file is missing
C7_Witness ==
    cred = "missing" /\ endpoint = "report" /\ pc = "done"

\* C8: for every record sequence the markdown rendering has a 'Confidence
\* Levels' section of exactly three lines, HIGH, MEDIUM, LOW in that order,
\* each with its count, a bucket at 0 included.
C8_ConfidenceSection ==
    MarkdownServed =>
        /\ IsReport
        /\ HasHeadings(response.report_content)
        /\ Section(response.report_content, "\n### Confidence Levels", "")
             = << Line("- ", HIGH, SpecCount(Returned, Len(Returned), HIGH)),
                  Line("- ", MEDIUM, SpecCount(Returned, Len(Returned), MEDIUM)),
                  Line("- ", LOW, SpecCount(Returned, Len(Returned), LOW)) >>

\* C9: a successful GET /status made exactly two searches, the supported MIME
\* types first and classified = true second; total_documents and
\* classified_count are the numbers of records they returned and
\* pending_count is their difference.
C9_StatusCounts ==
    response.kind = "StatusResponse" =>
        /\ pc = "done" /\ endpoint = "status"
        /\ Len(calls) = 2
        /\ calls[1].q[1] = "mimeType = '"
        /\ calls[2].q = <<"properties has { key='classified' and value='true' }">>
        /\ calls[1].outcome = "ok" /\ calls[2].outcome = "ok"
        /\ response.total_documents = Len(FilesOf(calls[1].result))
        /\ response.classified_count = Len(FilesOf(calls[2].result))
        /\ response.pending_count
             = response.total_documents - response.classified_count

\* C9's case: a status answered after searches of two and one records
C9_Witness ==
    /\ response.kind = "StatusResponse"
    /\ response.total_documents = 2 /\ response.classified_count = 1
    /\ response.pending_count = 1

\* C10: in a successful GET /status response 0 <= classified_count <=
\* total_documents and pending_count >= 0, whatever the two searches return.
C10_StatusConsistent ==
    response.kind = "StatusResponse" =>
        /\ 0 <= response.classified_count
        /\ response.classified_count <= response.total_documents
        /\ response.pending_count >= 0

====
